---- MODULE Spec2Model ----
(***************************************************************************)
(* Job state machine of the document-ingestion worker                      *)
(* (docling-service/db_worker.py): NumWorkers worker processes poll one    *)
(* "DocumentProcessingJob" table, claim queued rows with                   *)
(* UPDATE ... (SELECT ... FOR UPDATE SKIP LOCKED), and drive each claimed  *)
(* job through download -> temp file -> process-and-embed -> final write.  *)
(*                                                                         *)
(* One action is one uninterrupted stretch of a worker: from one database  *)
(* statement or await point to the next.  The synchronous code between two *)
(* awaits (including the except and finally blocks of process_job) is part *)
(* of the action that runs it.                                             *)
(*                                                                         *)
(* The second half models the document service (docling-service/main.py):  *)
(* clean_text_content on texts as character sequences, and                 *)
(* extract_chunks_from_json with its sentence chunker and its fan-out of   *)
(* image tasks under asyncio.Semaphore(10), each with its own              *)
(* specification (CleanSpec, ChunkSpec, ThreePageSpec, ImageSpec).         *)
(***************************************************************************)
EXTENDS Integers, Sequences, FiniteSets, TLC

\* ------------------------------------------------------------------ bounds
NumWorkers == 2
NumJobs == 2
\* job-store faults (connection errors, lost commits, failed statements) in one run
MaxFaults == 1
\* sentences of a page text under the chunker
MaxSentences == 4
\* max_chunk_size in the chunker runs (the service's default is 1000)
SmallChunkSize == 10
\* pieces of a text under the normalizer
MaxPieces == 4
MaxStoreChunks == 2                \* chunks in one list given to store_chunks
MaxRuns == 2                       \* calls of store_chunks on one list
MaxElements == 2                   \* text items, and tables, of a document with malformed elements
MaxUploadFactor == 2               \* the largest body, in multiples of the upload cap
\* pictures of a document with mixed pictures
NumPictures == 2
\* valid pictures beyond the semaphore's limit in a document full of pictures
ExtraPictures == 1

\* -------------------------------------------------- constants of the code
SemaphoreLimit == 10               \* asyncio.Semaphore(10)
MinImageBytes == 100               \* len(decoded_bytes) < 100
PrefixLen == 256                   \* content[:256]
MAX_UPLOAD_SIZE == 52428800        \* 50 * 1024 * 1024
poll_interval == 5                 \* self.poll_interval = 5

Workers == 1..NumWorkers
JobIds == 1..NumJobs

\* ------------------------------------------------------- values of the code
NULL == "NULL"                     \* an unset column
None == <<>>                       \* Python None for an optional argument
Some(v) == <<v>>

\* messages an exception of the pipeline can carry (str(e)); httpx timeouts
\* carry the empty message
ExcMsgs == {"", "timeout"}
KeyErrorMsg == "'r2Url'"

\* answers of the process-and-embed endpoint that parse as JSON with status 200
Results ==
    [status_code : {200}, success : {TRUE}, error : {None}, chunks_stored : {0, 2},
     total_pages : {3}, processing_time_ms : {7}]
        \cup [status_code : {200}, success : {FALSE}, error : {None, Some("")},
              chunks_stored : {0}, total_pages : {0}, processing_time_ms : {0}]

\* answers with another status of the 2xx class: raise_for_status raises on
\* every status outside it, and on none inside
OtherResults ==
    [status_code : {201}, success : {TRUE, FALSE}, error : {None}, chunks_stored : {2},
     total_pages : {3}, processing_time_ms : {7}]

Digit == <<"0", "1", "2", "3", "4", "5", "6", "7", "8", "9">>

\* str(n) of a non-negative int: the job table keeps its numbers as text
RECURSIVE str(_)
str(n) == IF n < 10 THEN Digit[n + 1] ELSE str(n \div 10) \o Digit[(n % 10) + 1]

\* int(s) for the texts str produces from 0..100
int(s) == CHOOSE n \in 0..100 : str(n) = s

\* ------------------------------------------------------------------- state
VARIABLES
    jobs,        \* the committed rows of "DocumentProcessingJob", by id
    pc,          \* where each worker process is
    job,         \* the row a worker's open claim locks, then run()'s job
    running,     \* DatabaseWorker.running
    temp_path,   \* process_job's temp_path local
    tempFiles,   \* jobs whose temporary file exists on disk
    claims,      \* per job, the number of committed queued->processing claims
    faults,      \* job-store faults so far
    completed_on, \* per job, the HTTP status of the answer its completed write followed
    stop_called  \* the workers whose stop() has been called

\* the document service (docling-service/main.py)
VARIABLES
    text,            \* the string clean_text_content is applied to
    passes,          \* how many times it has been applied
    doc,             \* the converted document: its text items and pictures
    max_chunk_size,  \* extract_chunks_from_json's max_chunk_size
    chunks,          \* extract_chunks_from_json's chunks list
    xpc,             \* where extract_chunks_from_json is
    task,            \* per picture, where its process_with_limit task is
    calls,           \* per picture, the collaborator calls made for it
    env              \* the service's configuration: which collaborators are set up

\* the vector storage service (docling-service/vector_service.py)
VARIABLES
    store            \* the vector index and the position of store_chunks

\* the HTTP endpoint of the document service (POST /process-document)
VARIABLES
    http             \* one request and how far its handling has come

workerVars == <<jobs, pc, job, running, temp_path, tempFiles, claims, faults, completed_on,
               stop_called>>
serviceVars == <<store, http>>
docVars == <<text, passes, doc, max_chunk_size, chunks, xpc, task, calls, env>>
vars == <<workerVars, docVars, serviceVars, completed_on, stop_called>>

NoJob == 0

\* the service with the vision key and the object storage set up
Configured == [vision_key |-> TRUE, r2 |-> TRUE]

\* the document service before any request
DocIdle ==
    /\ text = <<>> /\ passes = 0
    /\ doc = [texts |-> <<>>, pictures |-> <<>>]
    /\ max_chunk_size = 0
    /\ chunks = <<>> /\ xpc = "idle"
    /\ task = <<>> /\ calls = <<>>
    /\ env = Configured

\* no request at the endpoint
NoRequest ==
    [pc |-> "none", multipart |-> FALSE, content_length |-> None, size |-> 0,
     file_type |-> "", converter |-> FALSE, temp_path |-> None,
     written |-> FALSE, converted |-> FALSE, status |-> 0, success |-> FALSE]

\* the vector storage service with an empty index; written and failed are
\* the chunks of the current call that were upserted and that reached the
\* inner except, complete is whether the first call stored all it could
NewStore(at, list, run) ==
    [pc |-> at, chunks |-> list, index |-> {}, i |-> 0, stored_count |-> 0,
     run |-> run, written |-> {}, failed |-> {}, complete |-> FALSE]

\* the vector storage service before any call: an empty index, no request
StoreIdle ==
    /\ http = NoRequest
    /\ store = NewStore("idle", <<>>, 0)

\* extract_chunks_from_json called on document d with max_chunk_size max
\* under configuration e
ExtractCalled(d, max, e) ==
    /\ text = <<>> /\ passes = 0
    /\ doc = d
    /\ max_chunk_size = max
    /\ chunks = <<>> /\ xpc = "start"
    /\ task = <<>> /\ calls = <<>>
    /\ env = e
    /\ StoreIdle

\* a row as the upstream submission API creates it
NewRow(created) ==
    [status |-> "queued", progress |-> NULL, message |-> NULL,
     errorMessage |-> NULL, chunksCount |-> NULL, totalPages |-> NULL,
     processingTimeMs |-> NULL, createdAt |-> created,
     startedAt |-> NULL, completedAt |-> NULL]

WorkerInit ==
    /\ jobs = [j \in JobIds |-> NewRow(j)]
    /\ pc = [w \in Workers |-> "created"]
    /\ job = [w \in Workers |-> NoJob]
    /\ running = [w \in Workers |-> FALSE]
    /\ temp_path = [w \in Workers |-> NoJob]
    /\ tempFiles = {}
    /\ claims = [j \in JobIds |-> 0]
    /\ faults = 0
    /\ completed_on = [j \in JobIds |-> 0]
    /\ stop_called = {}

Init == WorkerInit /\ DocIdle /\ StoreIdle

\* the job store fails at most MaxFaults times in a run
Fault == faults < MaxFaults /\ faults' = faults + 1

\* a statement of update_job_status reaches the database (db_ok) or fails
Store(db_ok) == IF db_ok THEN UNCHANGED faults ELSE Fault

\* ------------------------------------------------------------ get_next_job
\* the claim statement without FOR UPDATE SKIP LOCKED: no row is seen locked
LockedNever(j) == FALSE

\* a row is locked while a claim that selected it has not committed
Locked(j) == \E w \in Workers : pc[w] = "claim" /\ job[w] = j

\* the claim statement selecting a status no row has
SelectablePending(j) == jobs[j].status = "pending" /\ ~Locked(j)

\* the claim statement also taking failed rows again
SelectableRetry(j) == jobs[j].status \in {"queued", "failed"} /\ ~Locked(j)

\* WHERE status = 'queued' ... FOR UPDATE SKIP LOCKED
Selectable(j) == jobs[j].status = "queued" /\ ~Locked(j)

\* the claim statement without ORDER BY: any selectable row
AnySelectable == {j \in JobIds : Selectable(j)}

\* ORDER BY "createdAt" ASC LIMIT 1
OldestSelectable ==
    {j \in JobIds : /\ Selectable(j)
                    /\ \A k \in JobIds :
                          Selectable(k) => jobs[j].createdAt <= jobs[k].createdAt}

\* SET status = 'processing', "startedAt" = NOW(), progress = '0', message = ...
ClaimRow(row) ==
    [row EXCEPT !.status = "processing", !.startedAt = "NOW",
                !.progress = "0", !.message = "Starting document processing..."]

\* get_connection() raises: get_next_job returns None, run() sleeps
ConnectFail(w) ==
    /\ pc[w] = "poll" /\ running[w]
    /\ Fault
    /\ pc' = [pc EXCEPT ![w] = "sleep"]
    /\ UNCHANGED <<jobs, job, running, temp_path, tempFiles, claims, docVars, serviceVars, completed_on, stop_called>>

\* cursor.execute: the statement locks and updates the selected row, or
\* finds none, and then get_next_job returns None and run() sleeps
Execute(w) ==
    /\ pc[w] = "poll" /\ running[w]
    /\ IF OldestSelectable = {}
       THEN /\ pc' = [pc EXCEPT ![w] = "sleep"]
            /\ UNCHANGED job
       ELSE \E j \in OldestSelectable :
                /\ job' = [job EXCEPT ![w] = j]
                /\ pc' = [pc EXCEPT ![w] = "claim"]
    /\ UNCHANGED <<jobs, running, temp_path, tempFiles, claims, faults, docVars, serviceVars, completed_on, stop_called>>

\* conn.commit() succeeds and get_next_job returns the row
CommitOk(w) ==
    /\ pc[w] = "claim"
    /\ jobs' = [jobs EXCEPT ![job[w]] = ClaimRow(@)]
    /\ claims' = [claims EXCEPT ![job[w]] = @ + 1]
    /\ pc' = [pc EXCEPT ![w] = "start"]
    /\ UNCHANGED <<job, running, temp_path, tempFiles, faults, docVars, serviceVars, completed_on, stop_called>>

\* the commit takes effect but get_next_job raises after it (commit
\* acknowledgement lost, cursor.close/conn.close raise): returns None
CommitLost(w) ==
    /\ pc[w] = "claim"
    /\ Fault
    /\ jobs' = [jobs EXCEPT ![job[w]] = ClaimRow(@)]
    /\ claims' = [claims EXCEPT ![job[w]] = @ + 1]
    /\ job' = [job EXCEPT ![w] = NoJob]
    /\ pc' = [pc EXCEPT ![w] = "sleep"]
    /\ UNCHANGED <<running, temp_path, tempFiles, docVars, serviceVars, completed_on, stop_called>>

\* fetchone/commit raise before the commit: the transaction rolls back
Rollback(w) ==
    /\ pc[w] = "claim"
    /\ Fault
    /\ job' = [job EXCEPT ![w] = NoJob]
    /\ pc' = [pc EXCEPT ![w] = "sleep"]
    /\ UNCHANGED <<jobs, running, temp_path, tempFiles, claims, docVars, serviceVars, completed_on, stop_called>>

\* ------------------------------------------------------- update_job_status
\* Python truth of an optional string argument: neither None nor ''
Truthy(opt) == opt # None /\ opt[1] # ""

\* update_job_status stamping "completedAt" for 'completed' alone
UpdatedRowCompletedOnly(row, status, progress, message, error_message, chunks_count, total_pages, processing_time_ms) ==
    [row EXCEPT
        !.status = status,
        !.progress = str(progress),
        !.message = IF Truthy(message) THEN message[1] ELSE @,
        !.errorMessage = IF Truthy(error_message) THEN error_message[1] ELSE @,
        !.chunksCount = IF chunks_count # None THEN str(chunks_count[1]) ELSE @,
        !.totalPages = IF total_pages # None THEN str(total_pages[1]) ELSE @,
        !.processingTimeMs =
            IF processing_time_ms # None THEN str(processing_time_ms[1]) ELSE @,
        !.completedAt = IF status = "completed" THEN "NOW" ELSE @]

\* the row the UPDATE of update_job_status leaves
UpdatedRow(row, status, progress, message, error_message, chunks_count, total_pages, processing_time_ms) ==
    [row EXCEPT
        !.status = status,
        !.progress = str(progress),
        !.message = IF Truthy(message) THEN message[1] ELSE @,
        !.errorMessage = IF Truthy(error_message) THEN error_message[1] ELSE @,
        !.chunksCount = IF chunks_count # None THEN str(chunks_count[1]) ELSE @,
        !.totalPages = IF total_pages # None THEN str(total_pages[1]) ELSE @,
        !.processingTimeMs =
            IF processing_time_ms # None THEN str(processing_time_ms[1]) ELSE @,
        !.completedAt = IF status = "completed" \/ status = "failed"
                        THEN "NOW" ELSE @]

\* an UPDATE without the restriction to the job's id
update_every_row(db_ok, job_id, status, progress, message, error_message, chunks_count, total_pages, processing_time_ms) == IF db_ok THEN [k \in DOMAIN jobs |-> UpdatedRow(jobs[k], status, progress, message, error_message, chunks_count, total_pages, processing_time_ms)] ELSE jobs

\* the table after update_job_status(job_id, ...): db_ok is whether the
\* statement reached the database; when it did not, the except block logs
\* the error and the table is as before
update_job_status(db_ok, job_id, status, progress, message, error_message, chunks_count, total_pages, processing_time_ms) ==
    IF db_ok
    THEN [jobs EXCEPT ![job_id] =
             UpdatedRow(@, status, progress, message, error_message,
                        chunks_count, total_pages, processing_time_ms)]
    ELSE jobs

\* ------------------------------------------------------------- process_job
\* except Exception as e: update_job_status(job_id, 'failed', 0, ...)
OnException(db_ok, job_id, msg) ==
    update_job_status(db_ok, job_id, "failed", 0, Some("Processing failed"),
                      Some(msg), None, None, None)

\* finally: if temp_path and os.path.exists(temp_path): os.unlink(temp_path)
\* (the unlink of an existing file of the worker's own is taken to succeed)
Cleanup(files, path) ==
    IF path # NoJob /\ path \in files THEN files \ {path} ELSE files

\* result.get('error', 'Unknown error processing document')
ErrorOf(r) ==
    IF r.error = None THEN "Unknown error processing document" ELSE r.error[1]

\* the completing write passing update_job_status's default progress
OnSuccessDefaultProgress(db_ok, job_id, r) ==
    update_job_status(db_ok, job_id, "completed", 0,
        Some("Successfully processed and stored " \o str(r.chunks_stored)
             \o " chunks"),
        None, Some(r.chunks_stored), Some(r.total_pages),
        Some(r.processing_time_ms))

\* the write that marks the job completed
OnSuccess(db_ok, job_id, r) ==
    update_job_status(db_ok, job_id, "completed", 100,
        Some("Successfully processed and stored " \o str(r.chunks_stored)
             \o " chunks"),
        None, Some(r.chunks_stored), Some(r.total_pages),
        Some(r.processing_time_ms))

\* run() without its except block: the exception ends the loop
OnLoopErrorRaise == "exited"

\* what run() does with an exception that reaches its loop: log and sleep
OnLoopError == "sleep"

\* a return to run() that keeps the job
LeaveKeepsJob(w, nextpc) ==
    /\ pc' = [pc EXCEPT ![w] = nextpc]
    /\ UNCHANGED <<job, temp_path>>

\* process_job leaves by an exception or returns: back in run()
Leave(w, nextpc) ==
    /\ pc' = [pc EXCEPT ![w] = nextpc]
    /\ job' = [job EXCEPT ![w] = NoJob]
    /\ temp_path' = [temp_path EXCEPT ![w] = NoJob]

\* job['id'], job['r2Url'], job['filename'], job['fileType'] before the try:
\* a KeyError (the row lacks the column) leaves process_job uncaught and
\* reaches run()
FieldError(w) ==
    /\ pc[w] = "start"
    /\ Fault
    /\ Leave(w, OnLoopError)
    /\ UNCHANGED <<jobs, running, tempFiles, claims, docVars, serviceVars, completed_on, stop_called>>

\* up to the download await: update_job_status(job_id, 'processing', 10, ...)
Start(w, db_ok) ==
    /\ pc[w] = "start"
    /\ Store(db_ok)
    /\ jobs' = update_job_status(db_ok, job[w], "processing", 10,
                   Some("Downloading file from R2..."), None, None, None, None)
    /\ pc' = [pc EXCEPT ![w] = "download"]
    /\ UNCHANGED <<job, running, temp_path, tempFiles, claims, docVars, serviceVars, completed_on, stop_called>>

\* the job leaves the try block by an exception with message msg: except
\* block, finally block, return to run()
Except(w, msg, db_ok, files) ==
    /\ Store(db_ok)
    /\ jobs' = OnException(db_ok, job[w], msg)
    /\ tempFiles' = Cleanup(files, temp_path[w])
    /\ Leave(w, "poll")
    /\ UNCHANGED <<running, claims, docVars, serviceVars, completed_on, stop_called>>

\* the try block raises before its first status write (r2_url[:50] on a
\* row whose r2Url is NULL)
StartFail(w, msg, db_ok) ==
    /\ pc[w] = "start"
    /\ Except(w, msg, db_ok, tempFiles)

\* client.get or raise_for_status raise
DownloadFail(w, msg, db_ok) ==
    /\ pc[w] = "download"
    /\ Except(w, msg, db_ok, tempFiles)

\* the download succeeds, NamedTemporaryFile(delete=False) creates the file,
\* tmp.write or tmp.flush raise before temp_path = tmp.name
TempWriteFail(w, msg, db_ok) ==
    /\ pc[w] = "download"
    /\ Except(w, msg, db_ok, tempFiles \cup {job[w]})

\* the download succeeds and the file is written: temp_path = tmp.name,
\* update_job_status(job_id, 'processing', 30, ...), up to the POST await
Downloaded(w, db_ok) ==
    /\ pc[w] = "download"
    /\ tempFiles' = tempFiles \cup {job[w]}
    /\ temp_path' = [temp_path EXCEPT ![w] = job[w]]
    /\ Store(db_ok)
    /\ jobs' = update_job_status(db_ok, job[w], "processing", 30,
                   Some("Processing document with Docling, embedding, and storing..."),
                   None, None, None, None)
    /\ pc' = [pc EXCEPT ![w] = "post"]
    /\ UNCHANGED <<job, running, claims, docVars, serviceVars, completed_on, stop_called>>

\* client.post raises, raise_for_status raises (the status is not 2xx), or
\* the body is not JSON
PostFail(w, msg, db_ok) ==
    /\ pc[w] = "post"
    /\ Except(w, msg, db_ok, tempFiles)

\* the endpoint answers with a status raise_for_status lets pass and the
\* JSON result r
PostResult(w, r, db_ok) ==
    /\ pc[w] = "post"
    /\ IF ~r.success
       THEN Except(w, ErrorOf(r), db_ok, tempFiles)
       ELSE /\ Store(db_ok)
            /\ jobs' = OnSuccess(db_ok, job[w], r)
            /\ completed_on' = IF db_ok THEN [completed_on EXCEPT ![job[w]] = r.status_code]
                               ELSE completed_on
            /\ tempFiles' = Cleanup(tempFiles, temp_path[w])
            /\ Leave(w, "poll")
            /\ UNCHANGED <<running, claims, docVars, serviceVars, stop_called>>

\* --------------------------------------------------------------- run, stop
\* run(): self.running = True, then the first test of the loop
RunStart(w) ==
    /\ pc[w] = "created"
    /\ running' = [running EXCEPT ![w] = TRUE]
    /\ pc' = [pc EXCEPT ![w] = "poll"]
    /\ UNCHANGED <<jobs, job, temp_path, tempFiles, claims, faults, docVars, serviceVars, completed_on, stop_called>>

\* while self.running: is false, run() returns
LoopExit(w) ==
    /\ pc[w] = "poll" /\ ~running[w]
    /\ pc' = [pc EXCEPT ![w] = "exited"]
    /\ UNCHANGED <<jobs, job, running, temp_path, tempFiles, claims, faults, docVars, serviceVars, completed_on, stop_called>>

\* the argument of the worker's pending asyncio.sleep, 0 when it is not
\* sleeping: both sleeps of run() are asyncio.sleep(self.poll_interval)
SleepArg(w) == IF pc[w] = "sleep" THEN poll_interval ELSE 0

\* await asyncio.sleep(self.poll_interval) ends
Sleep(w) ==
    /\ pc[w] = "sleep"
    /\ pc' = [pc EXCEPT ![w] = "poll"]
    /\ UNCHANGED <<jobs, job, running, temp_path, tempFiles, claims, faults, docVars, serviceVars, completed_on, stop_called>>

\* stop(): self.running = False
Stop(w) ==
    /\ running' = [running EXCEPT ![w] = FALSE]
    /\ stop_called' = stop_called \cup {w}
    /\ UNCHANGED <<jobs, pc, job, temp_path, tempFiles, claims, faults, docVars, serviceVars, completed_on>>

\* ---------------------------------------------------------- specifications
GetNextJob(w) == ConnectFail(w) \/ Execute(w)
Commit(w) == CommitOk(w) \/ CommitLost(w) \/ Rollback(w)
ProcessJob(w) ==
    \/ FieldError(w)
    \/ \E db_ok \in BOOLEAN : Start(w, db_ok) \/ Downloaded(w, db_ok)
    \/ \E msg \in ExcMsgs, db_ok \in BOOLEAN :
         \/ StartFail(w, msg, db_ok) \/ DownloadFail(w, msg, db_ok)
         \/ TempWriteFail(w, msg, db_ok) \/ PostFail(w, msg, db_ok)
    \/ \E r \in Results, db_ok \in BOOLEAN : PostResult(w, r, db_ok)

\* one step of the run() task of worker w
WorkerStep(w) ==
    RunStart(w) \/ GetNextJob(w) \/ Commit(w) \/ ProcessJob(w) \/ Sleep(w)

\* Workers that nobody stops.  A stopped worker only takes fewer steps, so
\* every history of the job table with stop() is one of these too.
Next == \E w \in Workers : WorkerStep(w)

Spec == Init /\ [][Next]_vars

\* Running workers under fair scheduling: every worker keeps taking steps
\* (each is its own process, its awaits carry timeouts).  The job store
\* fails at most MaxFaults times, so it does not fail forever.
LiveSpec == Spec /\ \A w \in Workers : WF_vars(WorkerStep(w))

\* Workers with stop() called at any moment from the scheduling of the run()
\* task on: start_worker only creates the task, and stop_worker calls stop()
\* on the worker object whatever the task has done so far.
StopNext ==
    \/ Next
    \/ \E w \in Workers : LoopExit(w)
    \/ \E w \in Workers : Stop(w)

StopSpec == Init /\ [][StopNext]_vars

\* The same under fair scheduling of the worker tasks; nothing obliges anyone
\* to call stop().
StopLiveSpec ==
    StopSpec /\ \A w \in Workers : WF_vars(WorkerStep(w) \/ LoopExit(w))

\* Workers whose endpoint may also answer with another 2xx status.
AnswerNext ==
    \/ Next
    \/ \E w \in Workers, r \in OtherResults, db_ok \in BOOLEAN : PostResult(w, r, db_ok)

AnswerSpec == Init /\ [][AnswerNext]_vars

\* ============================================================= main.py
\* A Python str is the sequence of its characters; a character is a
\* one-character string, or the name of its code point where TLA+ has no
\* literal for it.
EmptyStr == <<>>

\* characters str.strip() and the regex class \s take as whitespace;
\* U+001F (unit separator) is whitespace and a control character
Whitespace == {" ", "\t", "\n", "\r", "U+001F"}

\* ------------------------------------------------------ clean_text_content
Surrogates == {"U+D800", "U+DFFF"}           \* [\uD800-\uDFFF]
Controls == {"U+0000", "U+001F", "U+007F"}   \* [\x00-\x08\x0B\x0C\x0E-\x1F\x7F]
PrivateUse == {"U+E000", "U+F8FF"}           \* [\uE000-\uF8FF]
Specials == {"U+FFF0", "U+FFFD", "U+FFFF"}   \* [\uFFF0-\uFFFF]

\* the unicode_replacements table, keyed by code point
unicode_replacements ==
    [c \in {"U+04A7", "U+1236", "U+2192", "U+2190", "U+2248", "U+2260",
            "U+2264", "U+2265", "U+00B0", "U+03B8", "U+03C1", "U+03BC",
            "U+03C0", "U+0394", "U+03C3"} |->
        CASE c = "U+04A7" -> <<"p">>
          [] c = "U+1236" -> <<"s">>
          [] c = "U+2192" -> <<"-", ">">>
          [] c = "U+2190" -> <<"<", "-">>
          [] c = "U+2248" -> <<"~", "=">>
          [] c = "U+2260" -> <<"!", "=">>
          [] c = "U+2264" -> <<"<", "=">>
          [] c = "U+2265" -> <<">", "=">>
          [] c = "U+00B0" -> <<"d", "e", "g">>
          [] c = "U+03B8" -> <<"t", "h", "e", "t", "a">>
          [] c = "U+03C1" -> <<"r", "h", "o">>
          [] c = "U+03BC" -> <<"m", "u">>
          [] c = "U+03C0" -> <<"p", "i">>
          [] c = "U+0394" -> <<"D", "e", "l", "t", "a">>
          [] c = "U+03C3" -> <<"s", "i", "g", "m", "a">>]

\* str.strip()
RECURSIVE lstrip(_)
lstrip(t) == IF t # <<>> /\ Head(t) \in Whitespace THEN lstrip(Tail(t)) ELSE t

RECURSIVE rstrip(_)
rstrip(t) ==
    IF t # <<>> /\ t[Len(t)] \in Whitespace
    THEN rstrip(SubSeq(t, 1, Len(t) - 1)) ELSE t

strip(t) == rstrip(lstrip(t))

\* re.sub(r'[class]', '', t)
RemoveClass(t, class) == SelectSeq(t, LAMBDA c : c \notin class)

\* the first index from i on whose character is outside class
RECURSIVE SkipWhile(_, _, _)
SkipWhile(t, i, class) ==
    IF i <= Len(t) /\ t[i] \in class THEN SkipWhile(t, i + 1, class) ELSE i

\* the first index from i on that holds character c
RECURSIVE SkipUntil(_, _, _)
SkipUntil(t, i, c) ==
    IF i <= Len(t) /\ t[i] # c THEN SkipUntil(t, i + 1, c) ELSE i

\* the literal lit stands in t at index i
MatchLit(t, i, lit) ==
    i + Len(lit) - 1 <= Len(t) /\ SubSeq(t, i, i + Len(lit) - 1) = lit

CommentOpen == <<"<", "!", "-", "-">>
CommentClose == <<"-", "-", ">">>
ImageWord == <<"i", "m", "a", "g", "e">>
FormulaWord ==
    <<"f", "o", "r", "m", "u", "l", "a", "-", "n", "o", "t", "-",
      "d", "e", "c", "o", "d", "e", "d">>

\* <!--\s*word\s*--> matched at index i: the index after the match, else 0
MarkerEnd(t, i, word) ==
    IF ~MatchLit(t, i, CommentOpen) THEN 0
    ELSE LET j == SkipWhile(t, i + 4, Whitespace)
         IN  IF ~MatchLit(t, j, word) THEN 0
             ELSE LET k == SkipWhile(t, j + Len(word), Whitespace)
                  IN  IF MatchLit(t, k, CommentClose) THEN k + 3 ELSE 0

\* <!--[^>]*--> matched at index i: [^>]* cannot pass a '>', so the match
\* ends at the first '>' after the opener, if "--" stands right before it
CommentEnd(t, i) ==
    IF ~MatchLit(t, i, CommentOpen) THEN 0
    ELSE LET g == SkipUntil(t, i + 4, ">")
         IN  IF g <= Len(t) /\ g - 2 >= i + 4 /\ MatchLit(t, g - 2, CommentClose)
             THEN g + 1 ELSE 0

\* the patterns of clean_text_content matched at index i: the index after
\* the (greedy) match, else 0
MatchEnd(t, i, pat) ==
    CASE pat = "image" -> MarkerEnd(t, i, ImageWord)
      [] pat = "formula" -> MarkerEnd(t, i, FormulaWord)
      [] pat = "comment" -> CommentEnd(t, i)
      [] pat = "\r\n" -> IF MatchLit(t, i, <<"\r", "\n">>) THEN i + 2 ELSE 0
      [] pat = "\r" -> IF t[i] = "\r" THEN i + 1 ELSE 0
      [] pat = " +" -> IF t[i] = " " THEN SkipWhile(t, i, {" "}) ELSE 0
      [] pat = "\n +" ->
            IF MatchLit(t, i, <<"\n", " ">>) THEN SkipWhile(t, i + 1, {" "}) ELSE 0
      [] pat = " +\n" ->
            IF t[i] = " " /\ MatchLit(t, SkipWhile(t, i, {" "}), <<"\n">>)
            THEN SkipWhile(t, i, {" "}) + 1 ELSE 0
      [] pat = "\n{3,}" ->
            IF MatchLit(t, i, <<"\n", "\n", "\n">>) THEN SkipWhile(t, i, {"\n"}) ELSE 0

\* re.sub(pat, repl, t) and str.replace(pat, repl), scanning from index i:
\* leftmost matches, none overlapping
RECURSIVE sub(_, _, _, _)
sub(t, i, pat, repl) ==
    IF i > Len(t) THEN <<>>
    ELSE LET e == MatchEnd(t, i, pat)
         IN  IF e # 0 THEN repl \o sub(t, e, pat, repl)
             ELSE <<t[i]>> \o sub(t, i + 1, pat, repl)

\* for unicode_char, replacement in unicode_replacements.items(): no
\* replacement text holds a key of the table, so one pass does them all
RECURSIVE ReplaceUnicode(_)
ReplaceUnicode(t) ==
    IF t = <<>> THEN <<>>
    ELSE (IF Head(t) \in DOMAIN unicode_replacements
          THEN unicode_replacements[Head(t)] ELSE <<Head(t)>>)
         \o ReplaceUnicode(Tail(t))

\* text.encode('utf-8', 'replace').decode('utf-8', 'replace'): a surrogate
\* cannot be encoded and becomes '?'
Utf8RoundTrip(t) == [i \in 1..Len(t) |-> IF t[i] \in Surrogates THEN "?" ELSE t[i]]

clean_text_content(t0) ==
    IF t0 = <<>> THEN EmptyStr
    ELSE LET t1 == strip(t0)
             t2 == RemoveClass(t1, Surrogates)
             t3 == sub(t2, 1, "image", <<"[", "I", "m", "a", "g", "e", "]">>)
             t4 == sub(t3, 1, "formula", <<"[", "F", "o", "r", "m", "u", "l", "a", "]">>)
             t5 == sub(t4, 1, "comment", <<>>)
             t6 == RemoveClass(t5, Controls)
             t7 == RemoveClass(t6, PrivateUse)
             t8 == RemoveClass(t7, Specials)
             t9 == ReplaceUnicode(t8)
             t10 == sub(sub(t9, 1, "\r\n", <<"\n">>), 1, "\r", <<"\n">>)
             t11 == sub(t10, 1, " +", <<" ">>)
             t12 == sub(t11, 1, "\n +", <<"\n">>)
             t13 == sub(t12, 1, " +\n", <<"\n">>)
             t14 == sub(t13, 1, "\n{3,}", <<"\n", "\n">>)
             t15 == Utf8RoundTrip(t14)
         IN  RemoveClass(t15, {"U+FFFD"})

\* ----------------------------------------------- normalizer specification
\* one application of clean_text_content to the text at hand
Clean ==
    /\ passes < 2
    /\ text' = clean_text_content(text)
    /\ passes' = passes + 1
    /\ UNCHANGED <<workerVars, serviceVars, doc, max_chunk_size, chunks, xpc, task, calls, env>>

\* pieces the input texts are made of: plain characters, whitespace, a
\* control character, a private-use character, and the parts of a comment
\* marker
Pieces ==
    {<<"a">>, <<" ">>, <<"\n">>, <<"U+0000">>, <<"U+E000">>,
     <<"<", "!", "-">>, <<"-">>, ImageWord \o CommentClose}

RECURSIVE concat(_)
concat(parts) == IF parts = <<>> THEN <<>> ELSE Head(parts) \o concat(Tail(parts))

\* the texts of up to MaxPieces pieces
CleanInputs ==
    UNION {{concat(f) : f \in [1..n -> Pieces]} : n \in 0..MaxPieces}

CleanInit ==
    /\ WorkerInit
    /\ text \in CleanInputs /\ passes = 0
    /\ doc = [texts |-> <<>>, pictures |-> <<>>]
    /\ max_chunk_size = 0
    /\ chunks = <<>> /\ xpc = "idle"
    /\ task = <<>> /\ calls = <<>>
    /\ env = Configured
    /\ StoreIdle

CleanSpec == CleanInit /\ [][Clean]_vars

\* ------------------------------------------- extract_chunks_from_json: text
\* ' '.join(strs)
RECURSIVE join(_)
join(strs) ==
    IF strs = <<>> THEN EmptyStr
    ELSE IF Len(strs) = 1 THEN strs[1]
    ELSE strs[1] \o <<" ">> \o join(Tail(strs))

\* t.split('. ') with the part before the scan position in cur
RECURSIVE split(_, _)
split(t, cur) ==
    IF t = <<>> THEN <<cur>>
    ELSE IF MatchLit(t, 1, <<".", " ">>)
    THEN <<cur>> \o split(SubSeq(t, 3, Len(t)), <<>>)
    ELSE split(Tail(t), Append(cur, Head(t)))

\* the sentence of one part of the split
Sentence(s) ==
    LET u == strip(s)
    IN  IF u[Len(u)] \in {".", "!", "?"} THEN u ELSE Append(u, ".")

\* the sentences list of a page text
SentencesOf(page_text) ==
    LET parts == SelectSeq(split(page_text, <<>>), LAMBDA s : strip(s) # <<>>)
    IN  [i \in 1..Len(parts) |-> Sentence(parts[i])]

\* a text chunk.  current_chunk is kept as the positions of its sentences in
\* the page's sentences list; units records them beside the joined content.
TextChunk(sentences, current_chunk, page_no) ==
    [content |-> join([i \in 1..Len(current_chunk) |-> sentences[current_chunk[i]]]),
     content_type |-> "text", page |-> page_no,
     image_data |-> None, image_url |-> None, units |-> current_chunk]

\* sum(len(s) for s in current_chunk)
RECURSIVE SumLen(_, _)
SumLen(sentences, current_chunk) ==
    IF current_chunk = <<>> THEN 0
    ELSE Len(sentences[Head(current_chunk)]) + SumLen(sentences, Tail(current_chunk))

\* an overlap loop that takes nothing
OverlapLoopNone(sentences, current_chunk, j, overlap_sentences, overlap_length, overlap_size) == <<>>

\* an overlap loop that stops after the first unit it takes
OverlapLoopLastOnly(sentences, current_chunk, j, overlap_sentences, overlap_length, overlap_size) == IF j >= 1 /\ Len(sentences[current_chunk[j]]) <= overlap_size THEN <<current_chunk[j]>> ELSE <<>>

\* for j in range(len(current_chunk) - 1, -1, -1): the overlap loop from j down
RECURSIVE OverlapLoop(_, _, _, _, _, _)
OverlapLoop(sentences, current_chunk, j, overlap_sentences, overlap_length, overlap_size) ==
    IF j < 1 THEN overlap_sentences
    ELSE LET test_sentence == sentences[current_chunk[j]]
         IN  IF overlap_length + Len(test_sentence) <= overlap_size
             THEN OverlapLoop(sentences, current_chunk, j - 1,
                              <<current_chunk[j]>> \o overlap_sentences,
                              overlap_length + Len(test_sentence), overlap_size)
             ELSE overlap_sentences

\* the new buffer without the sentence that triggered the emit
NextChunkDropsSentence(overlap_sentences, k) == overlap_sentences

\* current_chunk = overlap_sentences + [sentence]
NextChunk(overlap_sentences, k) == overlap_sentences \o <<k>>

\* a loop body that never emits: every sentence joins the buffer
SentenceStepNeverEmits(sentences, k, st, page_no, max) ==
    [chunks |-> st.chunks,
     current_chunk |-> Append(st.current_chunk, k),
     current_length |-> st.current_length + Len(sentences[k])]

\* one pass of "for sentence in sentences" on sentence k;
\* st holds chunks, current_chunk and current_length
SentenceStep(sentences, k, st, page_no, max) ==
    IF st.current_length + Len(sentences[k]) > max /\ st.current_chunk # <<>>
    THEN LET overlap_sentences ==
                 OverlapLoop(sentences, st.current_chunk, Len(st.current_chunk),
                             <<>>, 0, max \div 5)
             current_chunk == NextChunk(overlap_sentences, k)
         IN  [chunks |-> Append(st.chunks, TextChunk(sentences, st.current_chunk, page_no)),
              current_chunk |-> current_chunk,
              current_length |-> SumLen(sentences, current_chunk)]
    ELSE [chunks |-> st.chunks,
          current_chunk |-> Append(st.current_chunk, k),
          current_length |-> st.current_length + Len(sentences[k])]

RECURSIVE SentenceLoop(_, _, _, _, _)
SentenceLoop(sentences, k, st, page_no, max) ==
    IF k > Len(sentences) THEN st
    ELSE SentenceLoop(sentences, k + 1, SentenceStep(sentences, k, st, page_no, max),
                      page_no, max)

\* the chunks of one page
PageChunks(page_text, page_no, max) ==
    LET sentences == SentencesOf(page_text)
        st == SentenceLoop(sentences, 1,
                           [chunks |-> <<>>, current_chunk |-> <<>>, current_length |-> 0],
                           page_no, max)
    IN  IF st.current_chunk # <<>>
        THEN Append(st.chunks, TextChunk(sentences, st.current_chunk, page_no))
        ELSE st.chunks

\* page_no of a text item: its first provenance entry, 1 without one
PageNoOf(text_item) == IF text_item.prov # <<>> THEN text_item.prov[1] ELSE 1

\* a text item is kept when its cleaned text is longer than 5 characters
Kept(text_item) ==
    text_item.text # <<>> /\ Len(clean_text_content(text_item.text)) > 5

\* text_chunks_by_page[page_no] after the join
PageText(texts, page_no) ==
    LET items == SelectSeq(texts, LAMBDA it : Kept(it) /\ PageNoOf(it) = page_no)
    IN  join([i \in 1..Len(items) |-> clean_text_content(items[i].text)])

\* sorted(text_chunks_by_page.keys())
RECURSIVE sorted(_)
sorted(S) ==
    IF S = {} THEN <<>>
    ELSE LET m == CHOOSE x \in S : \A y \in S : x <= y
         IN  <<m>> \o sorted(S \ {m})

RECURSIVE PagesLoop(_, _, _)
PagesLoop(texts, pages, max) ==
    IF pages = <<>> THEN <<>>
    ELSE PageChunks(PageText(texts, Head(pages)), Head(pages), max)
         \o PagesLoop(texts, Tail(pages), max)

\* the text chunks of a document
TextChunks(texts, max) ==
    PagesLoop(texts,
              sorted({PageNoOf(texts[i]) : i \in {n \in 1..Len(texts) : Kept(texts[n])}}),
              max)

\* ----------------------------------------- extract_chunks_from_json: images
\* A picture of the document is [data, page, vision, upload]: data is what
\* extract_image_from_picture returns for it (None, or Some(n) for base64
\* text that decodes to n bytes); vision and upload are what the two
\* collaborators answer when they are called for it.
GenericDescription == "Engineering technical diagram chart graph illustration"
filename == "doc.pdf"

\* a validity test without the size threshold
ValidAnySize(picture) == picture.data # None

\* the picture reaches valid_images
Valid(picture) == picture.data # None /\ ~(picture.data[1] < MinImageBytes)

\* the tasks gather is called with: one per valid picture, none started
PreparedTasks(pictures) ==
    [i \in 1..Len(pictures) |->
        [pc |-> IF Valid(pictures[i]) THEN "created" ELSE "skipped", chunk |-> None]]

\* the service's own text handed on without the fallback
VisionAnswerAsReceived(i) == IF doc.pictures[i].vision = "described" THEN "Figure " \o str(i) ELSE ""

\* what analyze_image_with_vision returns once the vision service has answered
VisionAnswer(i) ==
    IF doc.pictures[i].vision = "described"
    THEN "Figure " \o str(i)
    ELSE GenericDescription

\* an upload that always succeeds
UploadAlwaysStored(i) == Some("doc-images/" \o str(i) \o ".png")

\* what upload_image_to_r2 returns
upload_image_to_r2(i) ==
    IF env.r2 /\ doc.pictures[i].upload = "stored"
    THEN Some("doc-images/" \o str(i) \o ".png")
    ELSE None

\* a chunk that keeps the inline image data whatever the upload returned
ImageChunkKeepsData(i, vision_description) ==
    [content |-> <<vision_description, " (Page ", str(doc.pictures[i].page),
                   " from ", filename, ")">>,
     content_type |-> "image", page |-> doc.pictures[i].page,
     image_data |-> Some(i),
     image_url |-> upload_image_to_r2(i), units |-> <<>>]

\* process_single_image from the vision description on
ImageChunk(i, vision_description) ==
    LET image_url == upload_image_to_r2(i)
    IN  [content |-> <<vision_description, " (Page ", str(doc.pictures[i].page),
                       " from ", filename, ")">>,
         content_type |-> "image", page |-> doc.pictures[i].page,
         image_data |-> IF image_url # None THEN None ELSE Some(i),
         image_url |-> image_url, units |-> <<>>]

\* the tasks holding the semaphore
InSection == {i \in DOMAIN task : task[i].pc = "vision"}

\* a semaphore that never blocks
SemaphoreUnbounded == TRUE

\* async with semaphore: the semaphore has a free place
SemaphoreFree == Cardinality(InSection) < SemaphoreLimit

\* a result list filled in the order the tasks finish
ResultSlotByCompletion(i) ==
    1 + Cardinality({k \in DOMAIN task : task[k].pc = "done"})

\* the position of task i's result in what gather returns
ResultSlot(i) == i

\* task i returns chunk c
Finished(i, c) ==
    LET slot == ResultSlot(i)
    IN  [k \in DOMAIN task |->
            [pc |-> IF k = i THEN "done" ELSE task[k].pc,
             chunk |-> IF k = slot THEN Some(c) ELSE task[k].chunk]]

\* for chunk in image_chunks: if chunk is not None: chunks.append(chunk)
RECURSIVE ImageChunks(_, _)
ImageChunks(results, k) ==
    IF k > Len(results) THEN <<>>
    ELSE results[k].chunk \o ImageChunks(results, k + 1)

\* A text item whose 'text' value is not a string (text_type names the
\* JSON type of the value; a string when the field is left out): the
\* value is truthy, and clean_text_content raises on text.strip().  The
\* text loop has no try of its own.
TextRaises(text_item) ==
    "text_type" \in DOMAIN text_item /\ text_item.text_type # "string"

\* the tables section: doc.tables is looked at and logged, nothing is
\* appended
TableChunks(d) == IF "tables" \in DOMAIN d /\ d.tables # <<>> THEN <<>> ELSE <<>>

\* extract_chunks_from_json up to its await: the text section, the
\* preparation of valid_images and the creation of the tasks; an exception
\* of the text section is logged and raised again by the outer except
ExtractBegin ==
    /\ xpc = "start"
    /\ IF \E n \in 1..Len(doc.texts) : TextRaises(doc.texts[n])
       THEN /\ xpc' = "raised"
            /\ UNCHANGED <<chunks, task, calls>>
       ELSE /\ chunks' = TextChunks(doc.texts, max_chunk_size)
            /\ task' = PreparedTasks(doc.pictures)
            /\ calls' = [i \in 1..Len(doc.pictures) |-> [vision |-> 0, upload |-> 0]]
            /\ xpc' = "gather"
    /\ UNCHANGED <<workerVars, serviceVars, text, passes, doc, max_chunk_size, env>>

\* the upload call of task i, if the storage is set up
Uploaded(i) ==
    [calls EXCEPT ![i].upload = IF env.r2 THEN @ + 1 ELSE @]

\* process_with_limit(i) takes the semaphore and runs to the await of the
\* vision request; without a vision key there is no await and it runs to
\* its end
StartTask(i) ==
    /\ xpc = "gather"
    /\ task[i].pc = "created"
    /\ SemaphoreFree
    /\ IF env.vision_key
       THEN /\ task' = [task EXCEPT ![i].pc = "vision"]
            /\ calls' = [calls EXCEPT ![i].vision = @ + 1]
       ELSE /\ task' = Finished(i, ImageChunk(i, GenericDescription))
            /\ calls' = Uploaded(i)
    /\ UNCHANGED <<workerVars, serviceVars, text, passes, doc, max_chunk_size, chunks, xpc, env>>

\* the vision request of task i ends (answer, error status or exception);
\* the task uploads, builds its chunk and releases the semaphore
FinishTask(i) ==
    /\ xpc = "gather"
    /\ task[i].pc = "vision"
    /\ task' = Finished(i, ImageChunk(i, VisionAnswer(i)))
    /\ calls' = Uploaded(i)
    /\ UNCHANGED <<workerVars, serviceVars, text, passes, doc, max_chunk_size, chunks, xpc, env>>

\* a gather that returns whatever its tasks have done
ReturnsWithoutWaiting == TRUE

\* await asyncio.gather(...): every task has returned
AllFinished == \A i \in DOMAIN task : task[i].pc \in {"skipped", "done"}

\* gather returns when every task has; the chunks are appended and returned
ExtractReturn ==
    /\ xpc = "gather"
    /\ AllFinished
    /\ chunks' = chunks \o ImageChunks(task, 1) \o TableChunks(doc)
    /\ xpc' = "done"
    /\ UNCHANGED <<workerVars, serviceVars, text, passes, doc, max_chunk_size, task, calls, env>>

\* the text section alone: a document without pictures
ExtractTextOnly == ExtractBegin \/ ExtractReturn

\* ------------------------------------------------- chunker specification
\* a sentence of n characters
UnitOfLen(n) == [i \in 1..n |-> IF i = n THEN "." ELSE "a"]

\* sentence lengths around the limits: within the overlap budget, above it,
\* half the chunk size, above the chunk size
UnitLens == {SmallChunkSize \div 5, SmallChunkSize \div 5 + 1,
             SmallChunkSize \div 2, SmallChunkSize + 2}

\* page texts of up to MaxSentences sentences
ChunkTexts ==
    UNION {{join([i \in 1..n |-> UnitOfLen(f[i])]) : f \in [1..n -> UnitLens]} :
           n \in 0..MaxSentences}

\* a one-page document without pictures, chunked at SmallChunkSize
ChunkInit ==
    /\ WorkerInit
    /\ \E t \in ChunkTexts :
           ExtractCalled([texts |-> <<[text |-> t, prov |-> <<1>>]>>, pictures |-> <<>>],
                         SmallChunkSize, Configured)

ChunkSpec == ChunkInit /\ [][ExtractTextOnly]_vars

\* ------------------------------------------- three-page specification
\* the ways a text of total characters divides into sentences of two or more
\* characters joined by single spaces, as the sequences of sentence lengths
RECURSIVE Divisions(_)
Divisions(total) ==
    {<<total>>} \cup
    UNION {{<<n>> \o rest : rest \in Divisions(total - n - 1)} : n \in 2..(total - 3)}

\* page-2 texts of 2.5 x SmallChunkSize characters
PageTwoLen == (5 * SmallChunkSize) \div 2

PageTwoTexts ==
    {join([i \in 1..Len(d) |-> UnitOfLen(d[i])]) : d \in Divisions(PageTwoLen)}

\* a text-only document of three pages
ThreePageInit ==
    /\ WorkerInit
    /\ \E t \in PageTwoTexts :
           ExtractCalled([texts |-> <<[text |-> UnitOfLen(6), prov |-> <<1>>],
                                      [text |-> t, prov |-> <<2>>],
                                      [text |-> UnitOfLen(7), prov |-> <<3>>]>>,
                          pictures |-> <<>>],
                         SmallChunkSize, Configured)

ThreePageSpec == ThreePageInit /\ [][ExtractTextOnly]_vars

\* ---------------------------------------------------- image specification
\* the pictures a document can hold: no image data, image data below the
\* size threshold, and valid image data with every answer of the collaborators
PictureKinds ==
    [data : {None, Some(MinImageBytes - 1)}, vision : {"described"}, upload : {"stored"}]
        \cup [data : {Some(MinImageBytes)},
              vision : {"described", "empty", "error", "raise"},
              upload : {"stored", "failed"}]

\* picture i of a document is on page i
OnPages(kinds) ==
    [i \in 1..Len(kinds) |->
        [data |-> kinds[i].data, page |-> i,
         vision |-> kinds[i].vision, upload |-> kinds[i].upload]]

\* documents of one text item and NumPictures pictures of any kind
MixedDocs ==
    {[texts |-> <<[text |-> UnitOfLen(6), prov |-> <<1>>]>>, pictures |-> OnPages(kinds)] :
        kinds \in [1..NumPictures -> PictureKinds]}

\* a document with more valid pictures than the semaphore admits at once
FullDoc ==
    [texts |-> <<[text |-> UnitOfLen(6), prov |-> <<1>>]>>,
     pictures |-> OnPages([i \in 1..(SemaphoreLimit + ExtraPictures) |->
                              [data |-> Some(MinImageBytes), vision |-> "described",
                               upload |-> "stored"]])]

Envs == [vision_key : BOOLEAN, r2 : BOOLEAN]

ImageInit ==
    /\ WorkerInit
    /\ \/ \E d \in MixedDocs, e \in Envs : ExtractCalled(d, SmallChunkSize, e)
       \/ ExtractCalled(FullDoc, SmallChunkSize, Configured)

ImageNext ==
    \/ ExtractBegin
    \/ \E i \in DOMAIN task : StartTask(i)
    \/ \E i \in DOMAIN task : FinishTask(i)
    \/ ExtractReturn

ImageSpec == ImageInit /\ [][ImageNext]_vars

\* -------------------------------------------------- element specification
\* text items: well formed on page 1 and on page 2, without a text, and
\* with a number where the text should be
TextItemKinds ==
    {[text |-> UnitOfLen(6), prov |-> <<1>>],
     [text |-> UnitOfLen(7), prov |-> <<2>>],
     [text |-> EmptyStr, prov |-> <<1>>],
     [text |-> EmptyStr, prov |-> <<1>>, text_type |-> "number"]}

\* pictures: one without usable image data, one that is valid
ElementPictures ==
    {[data |-> None, vision |-> "described", upload |-> "stored"],
     [data |-> Some(MinImageBytes), vision |-> "described", upload |-> "stored"]}

\* a table with structured cell data
TableKinds == {[headers |-> <<"h1", "h2">>, rows |-> <<<<"a", "b">>>>, caption |-> Some("t")]}

\* documents of up to MaxElements text items, one picture and up to
\* MaxElements tables
ElementDocs ==
    {[texts |-> t, pictures |-> OnPages(<<p>>), tables |-> tb] :
        t \in UNION {[1..n -> TextItemKinds] : n \in 0..MaxElements},
        p \in ElementPictures,
        tb \in UNION {[1..n -> TableKinds] : n \in 0..MaxElements}}

ElementInit ==
    /\ WorkerInit
    /\ \E d \in ElementDocs : ExtractCalled(d, SmallChunkSize, Configured)

ElementSpec == ElementInit /\ [][ImageNext]_vars

\* ------------------------------------------------- vector_service.py
\* A chunk handed to store_chunks is a dict; page, image_data and
\* coordinates are optional keys (None: the key is absent).  Content is a
\* sequence of characters, the other strings are opaque.

\* content[:256]
Prefix(content) == SubSeq(content, 1, IF Len(content) < PrefixLen THEN Len(content) ELSE PrefixLen)

\* str.encode('utf-8'): the characters of the content as one string
RECURSIVE encode(_)
encode(content) ==
    LET n == Len(content)
        half == n \div 2
    IN IF n = 0 THEN ""
       ELSE IF n = 1 THEN content[1]
       ELSE encode(SubSeq(content, 1, half)) \o encode(SubSeq(content, half + 1, n))

\* json.dumps of the coordinates, {} when the key is absent
EmptyDict == "{}"
dumps(coordinates) == IF coordinates = None THEN EmptyDict ELSE "{" \o coordinates[1] \o "}"

\* hashlib.md5(...).hexdigest(): digests are named by what was digested, so
\* that two inputs get one digest only when they are the same input (also
\* after the truncation to eight characters)
md5(bytes) == "md5(" \o bytes \o ")"

\* the metadata dict store_chunks builds for generate_document_id: it has no
\* 'coordinates' key, and always a 'contentHash' key
Metadata(chunk) ==
    [source |-> chunk.source,
     page |-> IF chunk.page = None THEN 1 ELSE chunk.page[1],
     contentHash |-> chunk.content_hash,
     contentType |-> chunk.content_type,
     section |-> chunk.section]

generate_document_id(content, metadata) ==
    LET content_hash == IF "contentHash" \in DOMAIN metadata THEN metadata.contentHash
                        ELSE IF "source" \in DOMAIN metadata THEN metadata.source ELSE ""
        chunk_hash == md5(IF content # EmptyStr THEN encode(Prefix(content))
                          ELSE dumps(IF "coordinates" \in DOMAIN metadata
                                     THEN Some(metadata.coordinates) ELSE None))
        id_source == content_hash \o "|" \o str(metadata.page) \o "|" \o metadata.section \o "|" \o chunk_hash
    IN md5(id_source)

DocIdOf(chunk) == generate_document_id(chunk.content, Metadata(chunk))

\* chunk['content_type'] == 'image' and chunk.get('image_data')
UsesImageEmbedding(chunk) == chunk.content_type = "image" /\ chunk.image_data # None

\* not chunk.get('content') or not chunk['content'].strip()
EmptyContent(chunk) == strip(chunk.content) = EmptyStr

\* the inner except of the loop: the error is logged and the loop continues
\* with the next chunk
AfterChunkErrorRaises(s) == [s EXCEPT !.pc = "raised", !.failed = @ \cup {s.i}]
AfterChunkError(s) == [s EXCEPT !.i = @ + 1, !.failed = @ \cup {s.i}]

\* try: await self.initialize_index(); index = ...Index(self.index_name)
\* reach_ok = FALSE: one of the two raises, and the outer except re-raises
StoreBegin(reach_ok) ==
    /\ store.pc = "called"
    /\ store' = IF reach_ok
                THEN [store EXCEPT !.pc = "loop", !.i = 1, !.stored_count = 0]
                ELSE [store EXCEPT !.pc = "raised"]
    /\ UNCHANGED <<workerVars, docVars, http>>

\* one iteration of "for i, chunk in enumerate(chunks)"
StoreChunk(embed_ok, fetch_ok, upsert_ok) ==
    /\ store.pc = "loop"
    /\ store.i <= Len(store.chunks)
    /\ LET chunk == store.chunks[store.i]
           doc_id == DocIdOf(chunk)
       IN store' =
            IF ~UsesImageEmbedding(chunk) /\ EmptyContent(chunk)
            THEN [store EXCEPT !.i = @ + 1]
            ELSE IF ~embed_ok THEN AfterChunkError(store)
            ELSE IF fetch_ok /\ doc_id \in store.index
            THEN [store EXCEPT !.i = @ + 1]
            ELSE IF ~upsert_ok THEN AfterChunkError(store)
            ELSE [store EXCEPT !.index = @ \cup {doc_id},
                               !.stored_count = @ + 1,
                               !.written = @ \cup {store.i},
                               !.i = @ + 1]
    /\ UNCHANGED <<workerVars, docVars, http>>

\* return stored_count
StoreReturn ==
    /\ store.pc = "loop"
    /\ store.i > Len(store.chunks)
    /\ store' = [store EXCEPT !.pc = "returned"]
    /\ UNCHANGED <<workerVars, docVars, http>>

\* the caller runs store_chunks again on the same list and the same index
StoreAgain ==
    /\ store.pc \in {"returned", "raised"}
    /\ store.run < MaxRuns
    /\ store' = [store EXCEPT !.pc = "called", !.run = @ + 1, !.i = 0,
                              !.stored_count = 0, !.written = {}, !.failed = {},
                              !.complete = IF store.run = 1
                                           THEN store.pc = "returned" /\ store.failed = {}
                                           ELSE @]
    /\ UNCHANGED <<workerVars, docVars, http>>

Repeat(ch, n) == [k \in 1..n |-> ch]

StoreChunkOf(content, content_type, image_data, page, section, source, coordinates) ==
    [content |-> content, content_type |-> content_type, image_data |-> image_data,
     page |-> page, section |-> section, content_hash |-> "h", source |-> source,
     coordinates |-> coordinates]

\* the chunks the lists are made of: one plain text chunk, chunks that
\* differ from it in one input of the id, a blank text and a picture without
\* description
StoreKinds ==
    <<StoreChunkOf(<<"a", "b">>, "text", None, Some(1), "s", "f", Some("c1")),
      StoreChunkOf(<<"a", "b">>, "text", None, Some(2), "s", "f", Some("c1")),
      StoreChunkOf(<<"a", "b">>, "text", None, None, "t", "g", Some("c1")),
      StoreChunkOf(<<"a", "b">>, "text", None, Some(1), "s", "f", Some("c2")),
      StoreChunkOf(<<" ">>, "text", None, Some(1), "s", "f", None),
      StoreChunkOf(EmptyStr, "image", Some("png"), Some(1), "s", "f", Some("c1"))>>

\* two contents that share their first 256 characters
LongPair ==
    <<StoreChunkOf(Repeat("a", PrefixLen) \o <<"x">>, "text", None, Some(1), "s", "f", None),
      StoreChunkOf(Repeat("a", PrefixLen) \o <<"y">>, "text", None, Some(1), "s", "f", None)>>

StoreLists ==
    {LongPair} \cup
    UNION {[1..n -> {StoreKinds[k] : k \in 1..Len(StoreKinds)}] : n \in 0..MaxStoreChunks}

StoreInit ==
    /\ WorkerInit /\ DocIdle
    /\ http = NoRequest
    /\ \E list \in StoreLists :
         store = NewStore("called", list, 1)

StoreNext ==
    \/ \E reach_ok \in BOOLEAN : StoreBegin(reach_ok)
    \/ \E embed_ok, fetch_ok, upsert_ok \in BOOLEAN : StoreChunk(embed_ok, fetch_ok, upsert_ok)
    \/ StoreReturn
    \/ StoreAgain

StoreSpec == StoreInit /\ [][StoreNext]_vars

\* ------------------------------------------- main.py: the HTTP endpoint
\* A request is its headers (multipart content type or not, Content-Length
\* present or not: a body sent with chunked transfer encoding has none), the
\* length of its body and the media type of the uploaded file.  A
\* Content-Length header, when present, is the length of the body.

allowed_types == {"application/pdf",
                  "application/vnd.openxmlformats-officedocument.wordprocessingml.document",
                  "application/vnd.openxmlformats-officedocument.presentationml.presentation",
                  "text/html"}

\* the responses of a finished request
Responded(status, success) == [http EXCEPT !.pc = "done", !.status = status, !.success = success]

\* the test of the middleware: a multipart POST that declares a length
\* above the cap
DeclaredTooLarge(request) ==
    /\ request.multipart
    /\ request.content_length # None
    /\ request.content_length[1] > MAX_UPLOAD_SIZE

\* @app.middleware("http") limit_upload_size: raise 413 or call_next
limit_upload_size ==
    /\ http.pc = "received"
    /\ http' = IF DeclaredTooLarge(http) THEN Responded(413, FALSE)
               ELSE [http EXCEPT !.pc = "handler"]
    /\ UNCHANGED <<workerVars, docVars, store>>

\* process_document up to the try: the file parameter is bound (a request
\* without a multipart file is answered 422 by the framework; max_size is
\* not a parameter File() enforces), then the converter and the media type
\* are checked
ValidateUpload ==
    /\ http.pc = "handler"
    /\ http' = IF ~http.multipart THEN Responded(422, FALSE)
               ELSE IF ~http.converter THEN Responded(500, FALSE)
               ELSE IF http.file_type \notin allowed_types THEN Responded(400, FALSE)
               ELSE [http EXCEPT !.pc = "save"]
    /\ UNCHANGED <<workerVars, docVars, store>>

\* content = await file.read(); tmp_file.write(content); temp_path = name
\* write_ok = FALSE: the write raises, and the handler answers success=False
SaveUpload(write_ok) ==
    /\ http.pc = "save"
    /\ http' = IF write_ok
               THEN [http EXCEPT !.pc = "convert", !.temp_path = Some("tmp"), !.written = TRUE]
               ELSE [http EXCEPT !.pc = "finally", !.status = 200, !.success = FALSE]
    /\ UNCHANGED <<workerVars, docVars, store>>

\* converter.convert(temp_path), export_to_dict, extract_chunks_from_json
\* and the response; convert_ok = FALSE: one of them raises
ConvertUpload(convert_ok) ==
    /\ http.pc = "convert"
    /\ http' = [http EXCEPT !.pc = "finally", !.converted = TRUE,
                            !.status = 200, !.success = convert_ok]
    /\ UNCHANGED <<workerVars, docVars, store>>

\* finally: os.unlink(temp_path) if temp_path
FinallyUpload ==
    /\ http.pc = "finally"
    /\ http' = [http EXCEPT !.pc = "done", !.temp_path = None]
    /\ UNCHANGED <<workerVars, docVars, store>>

\* body lengths around the cap
UploadSizes == {1, MAX_UPLOAD_SIZE - 1, MAX_UPLOAD_SIZE, MAX_UPLOAD_SIZE + 1, MaxUploadFactor * MAX_UPLOAD_SIZE}

Requests ==
    {[pc |-> "received", multipart |-> m, content_length |-> IF d THEN Some(n) ELSE None,
      size |-> n, file_type |-> t, converter |-> c, temp_path |-> None,
      written |-> FALSE, converted |-> FALSE, status |-> 0, success |-> FALSE] :
        m \in BOOLEAN, d \in BOOLEAN, n \in UploadSizes,
        t \in {"application/pdf", "text/html", "image/png"}, c \in BOOLEAN}

UploadInit ==
    /\ WorkerInit /\ DocIdle
    /\ store = NewStore("idle", <<>>, 0)
    /\ http \in Requests

UploadNext ==
    \/ limit_upload_size
    \/ ValidateUpload
    \/ \E write_ok \in BOOLEAN : SaveUpload(write_ok)
    \/ \E convert_ok \in BOOLEAN : ConvertUpload(convert_ok)
    \/ FinallyUpload

UploadSpec == UploadInit /\ [][UploadNext]_vars

\* ---- the overlap of consecutive chunks, at a chunk size whose overlap
\* budget holds more than one sentence
OverlapChunkSize == 20

\* sentence lengths: half the overlap budget, just above half, just under
\* half the chunk size, nearly the chunk size
OverlapUnitLens == {(OverlapChunkSize \div 5) \div 2, (OverlapChunkSize \div 5) \div 2 + 1,
                    OverlapChunkSize \div 2 - 1, OverlapChunkSize - 2}

OverlapTexts ==
    UNION {{join([i \in 1..n |-> UnitOfLen(f[i])]) : f \in [1..n -> OverlapUnitLens]} :
           n \in 0..MaxSentences}

\* a one-page document without pictures, chunked at OverlapChunkSize
OverlapInit ==
    /\ WorkerInit
    /\ \E t \in OverlapTexts :
           ExtractCalled([texts |-> <<[text |-> t, prov |-> <<1>>]>>, pictures |-> <<>>],
                         OverlapChunkSize, Configured)

OverlapSpec == OverlapInit /\ [][ExtractTextOnly]_vars

\* ------------------------------------------------------------------ claims
\* a worker holds job j: get_next_job returned it and process_job has not ended
Holder(w, j) == job[w] = j /\ pc[w] \in {"start", "download", "post"}

Terminal(j) == jobs[j].status \in {"completed", "failed"}

\* C1: no job is claimed by more than one worker: every job has at most one
\* committed queued->processing claim and at most one worker holding it.
C1_ClaimExclusive ==
    \A j \in JobIds :
        /\ claims[j] <= 1
        /\ Cardinality({w \in Workers : Holder(w, j)}) <= 1

\* two workers hold two different jobs at once, both claimed once
C1_Witness ==
    \E w1, w2 \in Workers : \E j, k \in JobIds :
        w1 # w2 /\ j # k /\ Holder(w1, j) /\ Holder(w2, k)
            /\ claims[j] = 1 /\ claims[k] = 1

\* C2: with running workers under fair scheduling and no job added, every
\* job is eventually claimed, and the number of claims settles at one per
\* job (NumJobs in total).
C2_AllClaimedOnce ==
    <>[](\A j \in JobIds : claims[j] = 1 /\ jobs[j].status # "queued")

\* every job has been claimed once
C2_Witness == \A j \in JobIds : claims[j] = 1 /\ jobs[j].status # "queued"

\* C3: a job's status only changes queued->processing, processing->completed
\* or processing->failed; a completed or failed job keeps its status.
C3_StatusForward ==
    [][\A j \in JobIds :
          jobs'[j].status # jobs[j].status =>
              <<jobs[j].status, jobs'[j].status>> \in
                  {<<"queued", "processing">>, <<"processing", "completed">>,
                   <<"processing", "failed">>}]_vars

\* one job ended completed and another failed, and a worker polls again
C3_Witness ==
    \E j, k \in JobIds :
        /\ jobs[j].status = "completed" /\ jobs[k].status = "failed"
        /\ \E w \in Workers : pc[w] = "poll"

\* C4: a result that says success with chunks_stored = 0, whose final write
\* reaches the job store, leaves the job failed with an error message and
\* chunks_count 0.
C4_ZeroStoredFails ==
    [][\A w \in Workers, r \in Results :
          (PostResult(w, r, TRUE) /\ r.success /\ r.chunks_stored = 0) =>
              /\ jobs'[job[w]].status = "failed"
              /\ jobs'[job[w]].errorMessage # NULL
              /\ jobs'[job[w]].chunksCount = "0"]_vars

\* C5: an exception raised in the pipeline of a claimed job, whose failed
\* write reaches the job store, leaves the job failed with error_message
\* equal to the exception's message, whatever the message.
C5_FailureRecorded ==
    [][\A w \in Workers, msg \in ExcMsgs :
          (\/ StartFail(w, msg, TRUE) \/ DownloadFail(w, msg, TRUE)
           \/ TempWriteFail(w, msg, TRUE) \/ PostFail(w, msg, TRUE)) =>
              /\ jobs'[job[w]].status = "failed"
              /\ jobs'[job[w]].errorMessage = msg]_vars

\* C6: every job in 'processing' is eventually finalized or queued again.
C6_ProcessingEnds ==
    \A j \in JobIds :
        (jobs[j].status = "processing") ~> (jobs[j].status # "processing")

\* C7: a temporary file exists only while a worker is inside process_job for
\* its job: once process_job has returned, the file is gone.
C7_TempReleased ==
    \A j \in tempFiles : \E w \in Workers : job[w] = j /\ pc[w] = "post"

\* C8: completed_at is set if and only if the status is completed or failed.
C8_CompletedAtIffTerminal ==
    \A j \in JobIds : jobs[j].completedAt # NULL <=> Terminal(j)

\* a completed job and a job in processing, stamped and not stamped
C8_Witness ==
    \E j, k \in JobIds :
        /\ jobs[j].status = "completed" /\ jobs[j].completedAt = "NOW"
        /\ jobs[k].status = "processing" /\ jobs[k].completedAt = NULL

\* C9 as stated: every write to a job's row persists a progress at least as
\* large as the one persisted before, also the write that marks it failed.
C9_ProgressMonotone ==
    [][\A j \in JobIds :
          (jobs'[j] # jobs[j] /\ jobs[j].progress # NULL) =>
              int(jobs'[j].progress) >= int(jobs[j].progress)]_vars

\* C9 amended: the writes that leave the job processing or completed persist
\* strictly increasing progress values, starting from 0 at the claim; the
\* write that marks the job failed persists progress 0.
C9_ProgressMonotoneUntilFailed ==
    [][\A j \in JobIds :
          jobs'[j] # jobs[j] =>
              IF jobs'[j].status = "failed"
              THEN jobs'[j].progress = "0"
              ELSE IF jobs[j].progress = NULL
                   THEN jobs'[j].progress = "0"
                   ELSE int(jobs'[j].progress) > int(jobs[j].progress)]_vars

\* one job completed at 100 and one failed at 0
C9_Witness ==
    \E j, k \in JobIds :
        /\ jobs[j].status = "completed" /\ jobs[j].progress = "100"
        /\ jobs[k].status = "failed" /\ jobs[k].progress = "0"

\* C10: no failure ends the loop of a running worker: the loop of a running
\* worker never ends, every worker comes back to its poll again and again,
\* and no job stays queued forever once some job has failed.
C10_LoopSurvives ==
    /\ [](\A w \in Workers : running[w] => pc[w] # "exited")
    /\ \A w \in Workers : []<>(pc[w] = "poll")
    /\ \A k \in JobIds :
          []<>(~(jobs[k].status = "queued"
                   /\ \E j \in JobIds : jobs[j].status = "failed"))

\* a job failed, a job store fault happened, and a worker holds a later job
C10_Witness ==
    \E j, k \in JobIds : \E w \in Workers :
        j < k /\ jobs[j].status = "failed" /\ faults > 0 /\ Holder(w, k)

\* the text chunks extract_chunks_from_json has produced
Extracted == xpc # "start"

\* C11: no text chunk has content longer than max_chunk_size characters,
\* except a chunk that consists of a single sentence unit.
C11_ChunkWithinLimit ==
    Extracted =>
        \A i \in 1..Len(chunks) :
            Len(chunks[i].content) > max_chunk_size => Len(chunks[i].units) = 1

\* the pages that have text chunks, and the chunks of one page in output order
ChunkPages == {chunks[i].page : i \in {n \in 1..Len(chunks) : chunks[n].content_type = "text"}}

ChunksOfPage(p) ==
    SelectSeq(chunks, LAMBDA c : c.content_type = "text" /\ c.page = p)

\* the units of chunk cur without the leading ones it repeats from chunk prev
RECURSIVE WithoutOverlap(_, _)
WithoutOverlap(prev, cur) ==
    IF cur # <<>> /\ \E i \in 1..Len(prev) : prev[i] = Head(cur)
    THEN WithoutOverlap(prev, Tail(cur)) ELSE cur

\* the units of a page's chunks, each chunk without its overlap, in order
RECURSIVE Reconstructed(_, _)
Reconstructed(cs, i) ==
    IF i > Len(cs) THEN <<>>
    ELSE (IF i = 1 THEN cs[1].units ELSE WithoutOverlap(cs[i - 1].units, cs[i].units))
         \o Reconstructed(cs, i + 1)

\* C12: the units of a page's chunks in output order, without each chunk's
\* overlap, are exactly the page's sentences in their order; and each chunk's
\* content is its units joined.
C12_Reconstructs ==
    Extracted =>
        \A p \in {PageNoOf(doc.texts[i]) : i \in {n \in 1..Len(doc.texts) : Kept(doc.texts[n])}} :
            LET sentences == SentencesOf(PageText(doc.texts, p))
                cs == ChunksOfPage(p)
            IN  /\ Reconstructed(cs, 1) = [i \in 1..Len(sentences) |-> i]
                /\ \A i \in 1..Len(cs) :
                       cs[i].content =
                           join([j \in 1..Len(cs[i].units) |-> sentences[cs[i].units[j]]])

\* a page of three chunks, the middle one starting with a repeated unit
C12_Witness ==
    /\ Extracted /\ Len(chunks) = 3
    /\ chunks[2].units[1] = chunks[1].units[Len(chunks[1].units)]
    /\ Len(chunks[2].units) >= 2

\* chunk later starts with a unit of chunk earlier
SharesOverlap(earlier, later) ==
    \E i \in 1..Len(earlier.units) : earlier.units[i] = later.units[1]

\* C13: whenever a page has two or more chunks, every chunk after the first
\* starts with at least one unit of the chunk before it.
C13_OverlapNonEmpty ==
    Extracted =>
        \A p \in ChunkPages :
            LET cs == ChunksOfPage(p)
            IN  \A i \in 1..(Len(cs) - 1) : SharesOverlap(cs[i], cs[i + 1])

\* C13 (amended): a chunk after the first starts with a unit of the chunk
\* before it exactly when that chunk's last unit is at most
\* max_chunk_size // 5 characters long.
C13_OverlapIffLastUnitFits ==
    Extracted =>
        \A p \in ChunkPages :
            LET cs == ChunksOfPage(p)
                sentences == SentencesOf(PageText(doc.texts, p))
            IN  \A i \in 1..(Len(cs) - 1) :
                    SharesOverlap(cs[i], cs[i + 1])
                        <=> Len(sentences[cs[i].units[Len(cs[i].units)]])
                                <= max_chunk_size \div 5

\* a page of three chunks: the second repeats the end of the first, the
\* third repeats nothing of the second
C13_Witness ==
    /\ Extracted /\ Len(chunks) = 3
    /\ SharesOverlap(chunks[1], chunks[2])
    /\ ~SharesOverlap(chunks[2], chunks[3])

\* the chunks of page p that hold unit k
Holding(cs, k) ==
    {i \in 1..Len(cs) : \E j \in 1..Len(cs[i].units) : cs[i].units[j] = k}

\* the units of a page longer than max_chunk_size
Oversized(sentences) ==
    {k \in 1..Len(sentences) : Len(sentences[k]) > max_chunk_size}

\* C14: a unit longer than max_chunk_size is in exactly one chunk, and that
\* chunk holds no other unit.
C14_OversizedAlone ==
    Extracted =>
        \A p \in ChunkPages :
            LET cs == ChunksOfPage(p)
                sentences == SentencesOf(PageText(doc.texts, p))
            IN  \A k \in Oversized(sentences) :
                    \E i \in 1..Len(cs) :
                        Holding(cs, k) = {i} /\ cs[i].units = <<k>>

\* C14 (amended): a unit longer than max_chunk_size is in exactly one chunk,
\* whole and as its last unit; the units before it in that chunk are all
\* repeated from the chunk before.
C14_OversizedLastAfterOverlap ==
    Extracted =>
        \A p \in ChunkPages :
            LET cs == ChunksOfPage(p)
                sentences == SentencesOf(PageText(doc.texts, p))
            IN  \A k \in Oversized(sentences) :
                    \E i \in 1..Len(cs) :
                        LET u == cs[i].units
                        IN  /\ Holding(cs, k) = {i}
                            /\ u[Len(u)] = k
                            /\ \A j \in 1..(Len(u) - 1) : u[j] # k
                            /\ Len(u) > 1 =>
                                   /\ i > 1
                                   /\ WithoutOverlap(cs[i - 1].units, u) = <<k>>

\* an oversized unit in the middle of a page, emitted behind a repeated unit
C14_Witness ==
    /\ Extracted /\ Len(chunks) = 3
    /\ Len(chunks[2].units) = 2
    /\ chunks[2].units[2] \in Oversized(SentencesOf(PageText(doc.texts, 1)))
    /\ chunks[2].units[1] = chunks[1].units[Len(chunks[1].units)]

\* C15: a three-page text-only document whose page-2 text has 2.5 x
\* max_chunk_size characters gives at least 3 chunks tagged page 2; the
\* chunks of pages 1 and 3 are those pages' own texts, so every chunk made
\* from page-2 text is tagged 2; and of the page-2 chunks only a chunk of a
\* single sentence, at most one, is longer than max_chunk_size.
C15_PageTwoChunks ==
    Extracted =>
        LET cs == ChunksOfPage(2)
            long == {i \in 1..Len(cs) : Len(cs[i].content) > max_chunk_size}
        IN  /\ Len(PageText(doc.texts, 2)) * 2 = 5 * max_chunk_size
            /\ Len(cs) >= 3
            /\ Len(chunks) = Len(cs) + 2
            /\ ChunksOfPage(1) = <<chunks[1]>> /\ chunks[1].content = doc.texts[1].text
            /\ ChunksOfPage(3) = <<chunks[Len(chunks)]>>
            /\ chunks[Len(chunks)].content = doc.texts[3].text
            /\ Cardinality(long) <= 1
            /\ \A i \in long : Len(cs[i].units) = 1

\* what extract_chunks_from_json returns for its input when the image tasks
\* run one after the other in picture order
RECURSIVE SequentialImages(_)
SequentialImages(k) ==
    IF k > Len(doc.pictures) THEN <<>>
    ELSE (IF Valid(doc.pictures[k])
          THEN <<ImageChunk(k, IF env.vision_key THEN VisionAnswer(k)
                                ELSE GenericDescription)>>
          ELSE <<>>)
         \o SequentialImages(k + 1)

\* C16: the chunks extract_chunks_from_json returns are the same list for
\* the same document and collaborator answers, whatever the order in which
\* the image tasks started and finished: the list of the sequential run.
C16_Deterministic ==
    xpc = "done" =>
        chunks = TextChunks(doc.texts, max_chunk_size) \o SequentialImages(1)

\* the second picture's task has returned its chunk while the first
\* picture's task still waits for the vision service
C16_Witness ==
    /\ xpc = "gather" /\ Len(task) = NumPictures
    /\ task[1].pc = "vision"
    /\ task[2].pc = "done" /\ task[2].chunk # None

\* picture i has image data that decodes to fewer than MinImageBytes bytes
BelowThreshold(i) ==
    doc.pictures[i].data # None /\ doc.pictures[i].data[1] < MinImageBytes

\* the image chunks made for picture i (the only picture on page i)
ChunksOfPicture(i) ==
    SelectSeq(chunks, LAMBDA c : c.content_type = "image" /\ c.page = doc.pictures[i].page)

\* C18: for a picture whose image bytes are below the threshold no task runs,
\* neither collaborator is called and no chunk is produced.
C18_SmallImageSkipped ==
    xpc \in {"gather", "done"} =>
        \A i \in 1..Len(doc.pictures) :
            BelowThreshold(i) =>
                /\ task[i].pc = "skipped" /\ task[i].chunk = None
                /\ calls[i].vision = 0 /\ calls[i].upload = 0
                /\ ChunksOfPicture(i) = <<>>

\* extraction has returned; the first picture was below the threshold, the
\* second one valid and chunked after both collaborators were called
C18_Witness ==
    /\ xpc = "done" /\ Len(doc.pictures) = NumPictures
    /\ BelowThreshold(1)
    /\ calls[2].vision = 1 /\ calls[2].upload = 1
    /\ Len(ChunksOfPicture(2)) = 1

\* C19: at most 10 image tasks are inside the semaphore's section at once.
C19_AtMostTenInSection == Cardinality(InSection) <= 10

\* ten tasks wait for the vision service, an eleventh for the semaphore
C19_Witness ==
    /\ Cardinality(InSection) = 10
    /\ \E i \in DOMAIN task : task[i].pc = "created"

\* the stages at which picture i fails
ExtractionFailed(i) == doc.pictures[i].data = None

VisionFailed(i) ==
    Valid(doc.pictures[i]) /\ env.vision_key
        /\ doc.pictures[i].vision \in {"error", "raise"}

UploadFailed(i) ==
    Valid(doc.pictures[i]) /\ env.r2 /\ doc.pictures[i].upload = "failed"

ImageFailed(i) == ExtractionFailed(i) \/ VisionFailed(i) \/ UploadFailed(i)

\* C20: when extraction has returned, a picture that failed at any stage
\* has no chunk, and every other valid picture has its chunk.
C20_FailedImageNoChunk ==
    xpc = "done" =>
        \A i \in 1..Len(doc.pictures) :
            /\ ImageFailed(i) => ChunksOfPicture(i) = <<>>
            /\ Valid(doc.pictures[i]) /\ ~ImageFailed(i) => Len(ChunksOfPicture(i)) = 1

\* C20 (amended): a picture without image data has no chunk; every valid
\* picture has exactly one chunk when extraction has returned, also when its
\* vision call or its upload failed: after a failed vision call the content
\* starts with the generic description, after a failed upload the chunk
\* keeps the inline image data and has no image_url.
C20_FailedImageFallsBack ==
    xpc = "done" =>
        \A i \in 1..Len(doc.pictures) :
            /\ ExtractionFailed(i) => ChunksOfPicture(i) = <<>>
            /\ Valid(doc.pictures[i]) => Len(ChunksOfPicture(i)) = 1
            /\ VisionFailed(i) => ChunksOfPicture(i)[1].content[1] = GenericDescription
            /\ UploadFailed(i) =>
                   /\ ChunksOfPicture(i)[1].image_url = None
                   /\ ChunksOfPicture(i)[1].image_data = Some(i)

\* extraction has returned for a document whose first picture failed at
\* the vision call and whose second picture failed at the upload
C20_Witness ==
    /\ xpc = "done" /\ Len(doc.pictures) = NumPictures
    /\ VisionFailed(1) /\ ~UploadFailed(1)
    /\ UploadFailed(2) /\ ~VisionFailed(2)
    /\ calls[1].vision = 1 /\ calls[2].upload = 1

\* C17: clean_text_content applied to its own result changes nothing.
C17_CleanIdempotent == [][passes = 1 => text' = text]_vars

\* the storage upload of picture i succeeded
UploadSucceeded(i) == env.r2 /\ doc.pictures[i].upload = "stored"

\* C21: every image chunk carries exactly one image payload: it has an
\* image_url and no image_data exactly when the upload of its picture
\* succeeded; with the storage not set up or the upload failed it has its
\* image_data and no image_url.
C21_OnePayload ==
    xpc = "done" =>
        \A i \in 1..Len(doc.pictures) :
            \A k \in 1..Len(ChunksOfPicture(i)) :
                LET c == ChunksOfPicture(i)[k]
                IN  /\ (c.image_data = None) # (c.image_url = None)
                    /\ c.image_data = None <=> UploadSucceeded(i)
                    /\ ~UploadSucceeded(i) =>
                           c.image_data = Some(i) /\ c.image_url = None

\* extraction has returned one chunk with a URL and one with inline data
C21_Witness ==
    /\ xpc = "done" /\ Len(doc.pictures) = NumPictures
    /\ Len(ChunksOfPicture(1)) = 1 /\ ChunksOfPicture(1)[1].image_url # None
    /\ Len(ChunksOfPicture(2)) = 1 /\ ChunksOfPicture(2)[1].image_data # None
    /\ calls[1].upload = 1 /\ calls[2].upload = 1

SecondRunReturned == store.run = 2 /\ store.pc = "returned"

\* C22: a second run of store_chunks on the same list against the same index
\* makes no upsert and returns stored_count 0, also when an existence check
\* (index.fetch) fails.  (The first run stored every chunk it could.)
C22_SecondRunWritesNothing ==
    SecondRunReturned /\ store.complete => store.written = {} /\ store.stored_count = 0

\* the chunks store_chunks has something to embed for
Storable == {k \in 1..Len(store.chunks) :
                UsesImageEmbedding(store.chunks[k]) \/ ~EmptyContent(store.chunks[k])}

\* the chunks of the current call whose id has been computed
Identified == {k \in Storable : k < store.i}

\* what the id of a chunk is specified to depend on; the document is named
\* by its content hash, which every chunk of the lists carries
IdInputs(chunk) ==
    <<Prefix(chunk.content), IF chunk.page = None THEN 1 ELSE chunk.page[1],
      chunk.section, chunk.coordinates, chunk.content_hash>>

\* C23: the id is a function of content prefix, page, section and coordinates
\* (with content hash/source): chunks with the same inputs get the same id,
\* and chunks that differ in one of the inputs are not given the same id.
C23_IdSeparatesInputs ==
    \A a, b \in Identified :
        IdInputs(store.chunks[a]) = IdInputs(store.chunks[b])
            <=> DocIdOf(store.chunks[a]) = DocIdOf(store.chunks[b])

\* C24: a failure while embedding or writing one chunk skips only that chunk
\* (it is not counted, the other chunks are processed, the count is
\* returned); a failure to reach the index propagates with no chunk processed.
C24_ChunkFailureIsLocal ==
    /\ store.pc = "raised" =>
          store.i = 0 /\ store.written = {} /\ store.failed = {}
    /\ store.pc = "returned" =>
          /\ store.i = Len(store.chunks) + 1
          /\ store.stored_count = Cardinality(store.written)
          /\ store.written \cap store.failed = {}
          /\ \A k \in Storable \ store.failed : DocIdOf(store.chunks[k]) \in store.index

C24_Witness ==
    /\ store.pc = "returned" /\ store.run = 1
    /\ Len(store.chunks) = 2
    /\ store.failed = {1}
    /\ store.written = {2} /\ store.stored_count = 1

\* C25: a request whose body exceeds the upload cap is rejected with the
\* size-exceeded error before any processing (no temporary file written, no
\* conversion), with or without a Content-Length header.
C25_OversizeRejected ==
    http.size > MAX_UPLOAD_SIZE =>
        /\ ~http.written /\ ~http.converted
        /\ http.pc = "done" /\ http.multipart => http.status = 413

\* the text items that have a text of the expected shape
WellFormedTexts == SelectSeq(doc.texts, LAMBDA it : ~TextRaises(it))

ExtractionEnded == xpc \in {"done", "raised"}

\* C26: a malformed element of any kind is skipped and never aborts the
\* extraction: the chunks of all well-formed elements are returned.
C26_MalformedSkipped ==
    ExtractionEnded =>
        /\ xpc = "done"
        /\ chunks = TextChunks(WellFormedTexts, max_chunk_size) \o ImageChunks(task, 1)

\* C27: every table with structured cell data yields a chunk of
\* content_type table that carries its headers, rows and caption.
C27_TableChunks ==
    xpc = "done" /\ "tables" \in DOMAIN doc =>
        \A t \in 1..Len(doc.tables) : \E k \in 1..Len(chunks) :
            /\ chunks[k].content_type = "table"
            /\ "table_structure" \in DOMAIN chunks[k]
            /\ chunks[k].table_structure = doc.tables[t]

\* the stages of process_job in their order
StageBefore(stage) ==
    CASE stage = "start" -> "claim"
      [] stage = "download" -> "start"
      [] stage = "post" -> "download"

\* C28: a job is written completed only after its download succeeded, its
\* temporary file was written and the process-and-embed call returned HTTP
\* 200 with success = true, in this order; no stage starts before the
\* previous one finished and no completed write skips a stage.
C28_CompletedAfterStages ==
    [][/\ \A w \in Workers :
            pc'[w] # pc[w] /\ pc'[w] \in {"start", "download", "post"} =>
                /\ pc[w] = StageBefore(pc'[w])
                /\ pc'[w] = "post" => temp_path'[w] = job[w] /\ job[w] \in tempFiles'
       /\ \A j \in JobIds :
            jobs[j].status # "completed" /\ jobs'[j].status = "completed" =>
                /\ \E w \in Workers : job[w] = j /\ pc[w] = "post" /\ temp_path[w] = j
                /\ j \in tempFiles
                /\ completed_on'[j] = 200]_vars

\* the worker is inside process_job
InProcessJob(w) == pc[w] \in {"start", "download", "post"}

\* C29: a worker runs one job at a time: whenever it is about to call
\* get_next_job, or waits to, it holds no job and no temporary file of one,
\* and inside process_job it holds exactly one job, which nobody else holds.
C29_OneJobAtATime ==
    \A w \in Workers :
        /\ pc[w] \in {"poll", "sleep"} => job[w] = NoJob /\ temp_path[w] = NoJob
        /\ Cardinality({j \in JobIds : Holder(w, j)}) <= 1
        /\ InProcessJob(w) =>
              /\ job[w] \in JobIds
              /\ \A v \in Workers \ {w} : ~Holder(v, job[w])

\* worker 1 has driven one job to its end alone and is about to ask for the
\* next one, which is still queued
C29_Witness ==
    /\ pc[1] = "poll" /\ pc[2] = "created"
    /\ \E j, k \in JobIds : jobs[j].status = "completed" /\ jobs[k].status = "queued"

\* C30: a poll cycle that finds no job, or whose claim attempt errors, waits
\* the poll interval of 5 before the next attempt; a cycle that found a job
\* starts the next attempt right after the job, without waiting.
C30_WaitOnlyWithoutJob ==
    [][\A w \in Workers :
          /\ pc[w] \in {"poll", "claim"} /\ pc'[w] \notin {"poll", "claim", "start"} =>
                SleepArg(w)' = 5
          /\ pc[w] = "sleep" /\ pc'[w] # "sleep" => pc'[w] = "poll"
          /\ InProcessJob(w) /\ ~InProcessJob(w)' =>
                pc'[w] = "poll" /\ SleepArg(w)' = 0]_vars

\* worker w's claim statement selects a row in this step
Selects(w) == pc[w] = "poll" /\ pc'[w] = "claim"

\* worker w's claim commits and get_next_job returns the row in this step
Claims(w) == pc[w] = "claim" /\ pc'[w] = "start"

\* the claim set started_at and reset the progress of the row
ClaimRecorded(row) == row.status = "processing" /\ row.startedAt = "NOW" /\ row.progress = "0"

\* C31 as stated: the claimed job has the minimum created_at among all jobs
\* in status queued at the time of the claim, also with concurrent workers,
\* and the claim sets its started_at and resets its progress to 0.
C31_ClaimsOldestQueued ==
    [][\A w \in Workers :
          /\ Selects(w) =>
                \A k \in JobIds :
                    jobs[k].status = "queued" => jobs[job'[w]].createdAt <= jobs[k].createdAt
          /\ Claims(w) => ClaimRecorded(jobs'[job[w]])]_vars

\* C31 amended: the claimed job has the minimum created_at among the queued
\* jobs that no other worker's uncommitted claim holds locked when the
\* statement selects it; the claim sets its started_at and resets its
\* progress to 0.
C31_ClaimsOldestUnlocked ==
    [][\A w \in Workers :
          /\ Selects(w) =>
                /\ jobs[job'[w]].status = "queued"
                /\ \A k \in JobIds :
                      (jobs[k].status = "queued"
                          /\ ~\E v \in Workers \ {w} : pc[v] = "claim" /\ job[v] = k)
                        => jobs[job'[w]].createdAt <= jobs[k].createdAt
          /\ Claims(w) => ClaimRecorded(jobs'[job[w]])]_vars

\* worker 2 has claimed the younger job while worker 1's claim of the older
\* one is not committed yet
C31_Witness ==
    \E j, k \in JobIds :
        /\ jobs[j].createdAt < jobs[k].createdAt
        /\ pc[1] = "claim" /\ job[1] = j /\ jobs[j].status = "queued"
        /\ pc[2] = "start" /\ job[2] = k /\ ClaimRecorded(jobs[k])

\* the units chunk later repeats from chunk earlier: its leading units up to
\* the last unit of earlier
Seeded(earlier, later) ==
    SelectSeq(later.units, LAMBDA k : k <= earlier.units[Len(earlier.units)])

\* ov is a suffix of the units of chunk c that ends with c's last unit
SuffixOf(ov, c) ==
    /\ Len(ov) <= Len(c.units)
    /\ ov = SubSeq(c.units, Len(c.units) - Len(ov) + 1, Len(c.units))

\* C32: when a chunk is emitted and the next one is seeded, the units the
\* next chunk repeats are a contiguous suffix of the emitted chunk's units,
\* taken whole from its last unit backward, placed in front of the next
\* chunk's own units; their lengths sum to at most max_chunk_size // 5; and
\* the suffix is maximal: it is the whole emitted chunk, or the unit before
\* it would take the sum above max_chunk_size // 5.
C32_OverlapMaximalSuffix ==
    Extracted =>
        \A p \in ChunkPages :
            LET cs == ChunksOfPage(p)
                sentences == SentencesOf(PageText(doc.texts, p))
            IN  \A i \in 1..(Len(cs) - 1) :
                    LET ov == Seeded(cs[i], cs[i + 1])
                        total == SumLen(sentences, ov)
                        n == Len(cs[i].units)
                    IN  /\ SuffixOf(ov, cs[i])
                        /\ ov = SubSeq(cs[i + 1].units, 1, Len(ov))
                        /\ total <= max_chunk_size \div 5
                        /\ \/ Len(ov) = n
                           \/ total + Len(sentences[cs[i].units[n - Len(ov)]])
                                  > max_chunk_size \div 5

\* a chunk of three units is emitted and the next chunk repeats its last two
\* units, the first being too long to be repeated as well
C32_Witness ==
    /\ Extracted /\ Len(chunks) = 2
    /\ Len(chunks[1].units) = 3
    /\ Len(Seeded(chunks[1], chunks[2])) = 2
    /\ Len(chunks[2].units) = 3

\* the vision service gives no description for picture i: no API key, an
\* error status, an empty description or an exception
VisionFails(i) ==
    ~env.vision_key \/ doc.pictures[i].vision \in {"empty", "error", "raise"}

\* the image chunks of the returned list whose content starts with the
\* generic description
GenericChunksOf(p) ==
    {n \in 1..Len(chunks) : /\ chunks[n].content_type = "image"
                            /\ chunks[n].page = p
                            /\ chunks[n].content[1] = GenericDescription}

\* C33: for a valid picture whose vision description fails (service not
\* configured, error status, empty description, exception), the image task
\* ends with a chunk, never without one, the chunk's content starts with the
\* generic description, and the chunk is in the returned list.
C33_VisionFallback ==
    \A i \in DOMAIN task :
        (Valid(doc.pictures[i]) /\ VisionFails(i)) =>
            /\ task[i].pc = "done" =>
                   /\ task[i].chunk # None
                   /\ task[i].chunk[1].content_type = "image"
                   /\ task[i].chunk[1].content[1] = GenericDescription
            /\ xpc = "done" => GenericChunksOf(doc.pictures[i].page) # {}

\* with the service configured, picture 1's request raised and picture 2's
\* answered with an error status; both chunks are returned
C33_Witness ==
    /\ xpc = "done" /\ env.vision_key
    /\ Len(doc.pictures) = 2
    /\ doc.pictures[1].vision = "raise" /\ doc.pictures[2].vision = "error"
    /\ Len(chunks) = 3
    /\ GenericChunksOf(1) = {2} /\ GenericChunksOf(2) = {3}

\* C34: once stop() has been called on a worker, its loop eventually ends
\* and the worker selects no further job, whenever the call came, also
\* before run() took its first step.
C34_StopEndsLoop ==
    /\ \A w \in Workers : (w \in stop_called) ~> (pc[w] = "exited")
    /\ [][\A w \in Workers : (w \in stop_called /\ pc[w] = "poll") => ~Selects(w)]_vars

\* a stop() that finds run() past its first step does end the loop: a
\* cleared flag is not set again
StopAfterStartEndsLoop ==
    /\ \A w \in Workers : (~running[w] /\ pc[w] # "created") ~> (pc[w] = "exited")
    /\ [][\A w \in Workers : (~running[w] /\ pc[w] = "poll") => ~Selects(w)]_vars

\* stop() was called on worker 1 before run() started, and the worker has
\* claimed a job since
StoppedWorkerClaims ==
    /\ 1 \in stop_called /\ running[1]
    /\ pc[1] = "start" /\ job[1] # NoJob

\* no two chunks of the list have the same content
DistinctContents ==
    \A a, b \in 1..Len(store.chunks) :
        a # b => store.chunks[a].content # store.chunks[b].content

\* C35: a first call of store_chunks on the empty index in which no chunk
\* failed, on chunks of pairwise different content, returns the number of
\* chunks that have something to embed, and the index then holds one record
\* for each of them, also for two chunks of one document and page that share
\* their first 256 content characters.
C35_EveryChunkStored ==
    (store.pc = "returned" /\ store.run = 1 /\ store.failed = {} /\ DistinctContents) =>
        /\ store.stored_count = Cardinality(Storable)
        /\ Cardinality(store.index) = Cardinality(Storable)

\* the rows a step changes
Written == {k \in JobIds : jobs'[k] # jobs[k]}

\* C36: a step that changes a job row is a step of a worker that holds that
\* job (its open claim, or the job it processes), and it changes no other
\* row, whatever the state of the other rows.
C36_WritesOwnRowOnly ==
    [][\A k \in Written :
           /\ \E w \in Workers : job[w] = k /\ pc'[w] # pc[w]
           /\ Written = {k}]_vars

\* worker 1 has written progress 30 to its job's row while worker 2
\* processes the other job, whose row carries worker 2's own write
C36_Witness ==
    \E j, k \in JobIds :
        /\ j # k /\ job[1] = j /\ job[2] = k
        /\ jobs[j].status = "processing" /\ jobs[j].progress = "30"
        /\ jobs[k].status = "processing" /\ jobs[k].progress = "10"

\* the picture an image chunk was made from, read off its payload
PictureOf(c) ==
    IF c.image_data # None THEN c.image_data[1]
    ELSE CHOOSE i \in 1..Len(doc.pictures) :
             c.image_url = Some("doc-images/" \o str(i) \o ".png")

\* the indexes of the valid pictures, ascending
ValidIndexes ==
    SelectSeq([i \in 1..Len(doc.pictures) |-> i], LAMBDA i : Valid(doc.pictures[i]))

\* C37: extraction returns only when every image task has finished; in the
\* returned list all text chunks come first and the image chunks follow in
\* the order of their pictures, one per valid picture, each with the page of
\* its own picture, in whatever order the tasks completed: while the tasks
\* run, the result of task i is held at position i.
C37_GatherKeepsPictureOrder ==
    /\ xpc = "gather" =>
           \A i \in DOMAIN task :
               task[i].chunk # None =>
                   task[i].pc = "done" /\ PictureOf(task[i].chunk[1]) = i
    /\ xpc = "done" =>
           LET imgs == SelectSeq(chunks, LAMBDA c : c.content_type = "image")
               n == Len(chunks) - Len(imgs)
           IN  /\ \A i \in DOMAIN task : task[i].pc \in {"skipped", "done"}
               /\ \A m \in 1..Len(chunks) : chunks[m].content_type = "image" <=> m > n
               /\ [m \in 1..Len(imgs) |-> PictureOf(imgs[m])] = ValidIndexes
               /\ \A m \in 1..Len(imgs) :
                      imgs[m].page = doc.pictures[PictureOf(imgs[m])].page

\* the second picture's task has finished before the first one's has
\* started, and its result waits at position 2
C37_Witness ==
    /\ xpc = "gather" /\ Len(task) = NumPictures
    /\ task[1].pc = "created"
    /\ task[2].pc = "done" /\ task[2].chunk # None
    /\ PictureOf(task[2].chunk[1]) = 2 /\ task[2].chunk[1].page = doc.pictures[2].page
====
